---- MODULE Spec2Model ----
(***************************************************************************)
(* Model of include/Parameter.h: the static parameter registry             *)
(* (ParameterBase::parametersDict), the typed value cell Parameter<T>, and *)
(* ParameterManager, which binds parameters to pangolin::Var controls      *)
(* (pangolinParams) and reconciles both sides in updateParameters().       *)
(*                                                                         *)
(* Values of an arithmetic T are natural numbers counted in the smallest   *)
(* step of T that the model distinguishes.  For T = double, std::to_string *)
(* prints six decimals, which is coarser than the values of T: Grid steps  *)
(* of T lie between two neighbouring printed numerals.  For int and bool   *)
(* the printed numeral is exact.                                           *)
(***************************************************************************)
EXTENDS Integers, Sequences, FiniteSets, TLC

\* ----------------------------------------------------------------- bounds
\* Largest value of an int or double parameter, in steps of T.
MaxVal == 3

\* Addresses at which Parameter objects are constructed.
Addr == {1, 2}

\* ------------------------------------------------------ program constants
\* nullptr, the value the destructor stores in the registry slot.
NULL == 0

\* Steps of a double between two neighbouring six-decimal numerals.
Grid == 3

\* enum class ParameterGroup, by enumerator value (two of the nine groups).
ParameterGroup == {1, 4}

MAIN == 1

TRACKING == 4

\* Parameter names, with the order std::map<std::string, ...> iterates in.
Names == {"gain", "threshold"}

NameRank == ("gain" :> 1) @@ ("threshold" :> 2)

\* enum ParameterCategory.
ParameterCategory == {"MINMAX", "BOOL", "TEXTINPUT", "UNDEFINED"}

\* The alternatives of ParameterVariant that the model instantiates.
ParameterVariant == {"bool", "int", "double"}

Values(T) == IF T = "bool" THEN 0..1 ELSE 0..MaxVal

\* --------------------------------------------------------------- std::map
EmptyMap == [x \in {} |-> NULL]

Has(m, k) == k \in DOMAIN m

Put(m, k, v) == [x \in (DOMAIN m) \cup {k} |-> IF x = k THEN v ELSE m[x]]

\* m[k] of std::map: value-initialises a missing key before the access.
Index(m, k, dflt) == IF Has(m, k) THEN m ELSE Put(m, k, dflt)

\* ------------------------------------------------ text <-> value conversion
\* A std::string held by a text control: a numeral denoting num steps of T
\* (ok), or text that is no numeral of T.
Numeral(n) == [ok |-> TRUE, num |-> n]

Malformed == [ok |-> FALSE, num |-> 0]

\* std::to_string(T): exact for bool and int (printed as an integer), "%f"
\* for double, which rounds to the nearest six-decimal numeral.
to_string(T, v) ==
    IF T = "double"
    THEN Numeral(((2 * v + Grid) \div (2 * Grid)) * Grid)
    ELSE Numeral(v)

\* boost::lexical_cast<T>(std::string): the value, or bad_lexical_cast.
LexicalCastThrows(text) == ~text.ok

LexicalCast(text) == text.num

\* ------------------------------------------------------------------ state
VARIABLES
    params,          \* the Parameter<T> object at each address
    parametersDict,  \* ParameterBase::parametersDict
    pangolinParams,  \* ParameterManager::pangolinParams
    last,            \* the last call: its name, return value and log line
    report,          \* what the last updateParameters() did, per parameter
    hist,            \* the last mutation of a bound value, and ticks since
    crashed          \* the process was ended by a memory fault

vars == <<params, parametersDict, pangolinParams, last, report, hist, crashed>>

\* Memory at an address before a Parameter is constructed there.
FreeCell ==
    [st |-> "free", mCategory |-> "UNDEFINED", T |-> "bool",
     mName |-> "gain", mGroup |-> MAIN,
     mValue |-> 0, mMinValue |-> 0, mMaxValue |-> 0,
     mChangedThroughPangolin |-> FALSE, mChangedInCode |-> FALSE]

Live(o) == params[o].st = "live"

NoCall == [op |-> "none", ptr |-> NULL, flag |-> FALSE, log |-> ""]

Call(op, ptr, flag, log) == [op |-> op, ptr |-> ptr, flag |-> flag, log |-> log]

NoVisit == [visited |-> FALSE, deref |-> FALSE, cb |-> 0,
            pushed |-> FALSE, pulled |-> FALSE]

NoReport == [end |-> "idle", per |-> [o \in Addr |-> NoVisit]]

\* The history the temporal properties read.  o: the bound parameter
\* mutated last (setValue on it, or an edit of its control); mut: which of
\* the two; v: the value set; single: the mutation changed the value while
\* nothing was pending; ticks: ticks since that mutation; n: setValue calls
\* and edits, on any parameter, since the last tick (both count up to 2).
\* Constructing, destroying and binding forget all but n.
NoHist == [o |-> NULL, mut |-> "none", v |-> 0, single |-> FALSE,
           n |-> 0, ticks |-> 0]

Upto2(n) == IF n < 2 THEN n + 1 ELSE n

Forget(h) == [NoHist EXCEPT !.n = h.n]

\* The binding that holds parameter o, as a set of <<group, name>> keys.
KeysOf(pp) == UNION {{<<g, n>> : n \in DOMAIN pp[g]} : g \in DOMAIN pp}

BoundKeys(o) == {k \in KeysOf(pangolinParams) :
                    pangolinParams[k[1]][k[2]].first = o}

Bound(o) == BoundKeys(o) # {}

Control(o) == LET k == CHOOSE k \in BoundKeys(o) : TRUE
              IN  pangolinParams[k[1]][k[2]].second

\* Nothing is pending for o: the flag is clear and both sides agree.
Steady(o) ==
    /\ Live(o) /\ Bound(o)
    /\ ~params[o].mChangedInCode
    /\ Control(o).ok /\ Control(o).num = params[o].mValue

Init ==
    /\ params = [o \in Addr |-> FreeCell]
    /\ parametersDict = EmptyMap
    /\ pangolinParams = EmptyMap
    /\ last = NoCall
    /\ report = NoReport
    /\ hist = NoHist
    /\ crashed = FALSE

\* ------------------------------------------------------------ Parameter<T>
\* Register as it would be with map::insert: the first entry is kept.
RegisterKeepsFirst(dict, group, name, o) ==
    LET d1 == Index(dict, group, EmptyMap)
    IN  [warn |-> Has(d1[group], name),
         dict |-> IF Has(d1[group], name) THEN d1
                  ELSE [d1 EXCEPT ![group] = Put(@, name, o)]]

\* The body shared by the three constructors: warn on a duplicate, then
\* store this in the slot.  parametersDict[group] creates the group.
Register(dict, group, name, o) ==
    LET d1 == Index(dict, group, EmptyMap)
    IN  [warn |-> Has(d1[group], name),
         dict |-> [d1 EXCEPT ![group] = Put(@, name, o)]]

\* Objects are constructed at the lowest free address.
NextFree(o) == /\ params[o].st = "free"
               /\ \A q \in Addr : q < o => params[q].st # "free"

Construct(o, cell) ==
    /\ ~crashed
    /\ NextFree(o)
    /\ LET r == Register(parametersDict, cell.mGroup, cell.mName, o)
       IN  /\ parametersDict' = r.dict
           /\ last' = Call("ctor", o, FALSE,
                           IF r.warn THEN "Duplicate parameter" ELSE "")
    /\ params' = [params EXCEPT ![o] = cell]
    /\ report' = NoReport
    /\ hist' = Forget(hist)
    /\ UNCHANGED <<pangolinParams, crashed>>

NewCell(cat, T, name, group, value, lo, hi) ==
    [st |-> "live", mCategory |-> cat, T |-> T,
     mName |-> name, mGroup |-> group,
     mValue |-> value, mMinValue |-> lo, mMaxValue |-> hi,
     mChangedThroughPangolin |-> FALSE, mChangedInCode |-> FALSE]

\* Parameter(name, value, toggle, group, callback)
ConstructToggle(o, G) ==
    \E name \in Names, group \in G, value \in BOOLEAN, toggle \in {TRUE} :
        Construct(o, NewCell("BOOL", "bool", name, group,
                             IF value THEN 1 ELSE 0, 0,
                             IF toggle THEN 1 ELSE 0))

\* Parameter(name, value, minValue, maxValue, group, callback)
ConstructRange(o, G, Ts) ==
    \E name \in Names, group \in G, T \in Ts, value \in 0..MaxVal,
       range \in {<<1, MaxVal - 1>>} :
        Construct(o, NewCell("MINMAX", T, name, group, value,
                             range[1], range[2]))

\* Parameter(name, value, group, callback)
ConstructText(o, G, Ts) ==
    \E name \in Names, group \in G, T \in Ts, value \in 0..MaxVal :
        Construct(o, NewCell("TEXTINPUT", T, name, group, value, 0, 0))

\* Unregister as it would be with map::erase: the key is removed.
UnregisterErases(dict, group, name) ==
    LET d1 == Index(dict, group, EmptyMap)
    IN  [d1 EXCEPT ![group] =
            [x \in (DOMAIN @) \ {name} |-> @[x]]]

\* ~Parameter(): parametersDict[mGroup][mName] = nullptr
Unregister(dict, group, name) ==
    LET d1 == Index(dict, group, EmptyMap)
    IN  [d1 EXCEPT ![group] = Put(@, name, NULL)]

Destroy(o) ==
    /\ ~crashed
    /\ Live(o)
    /\ parametersDict' = Unregister(parametersDict, params[o].mGroup,
                                    params[o].mName)
    /\ params' = [params EXCEPT ![o].st = "dead"]
    /\ last' = Call("dtor", o, FALSE, "Parameter being deleted")
    /\ report' = NoReport
    /\ hist' = Forget(hist)
    /\ UNCHANGED <<pangolinParams, crashed>>

\* setValue as it would be if it also reset the other flag.
setValueResetsFlags(p, value) ==
    [p EXCEPT !.mValue = value, !.mChangedInCode = TRUE,
              !.mChangedThroughPangolin = FALSE]

\* setValue(value): mValue = value; mChangedInCode = true
setValue(p, value) == [p EXCEPT !.mValue = value, !.mChangedInCode = TRUE]

SetValue(o) ==
    /\ ~crashed
    /\ Live(o)
    /\ \E value \in Values(params[o].T) :
        /\ params' = [params EXCEPT ![o] = setValue(@, value)]
        /\ hist' = IF Bound(o)
                    THEN [o |-> o, mut |-> "set", v |-> value,
                          single |-> Steady(o) /\ value # params[o].mValue,
                          n |-> Upto2(hist.n), ticks |-> 0]
                    ELSE [NoHist EXCEPT !.n = Upto2(hist.n)]
    /\ last' = NoCall
    /\ report' = NoReport
    /\ UNCHANGED <<parametersDict, pangolinParams, crashed>>

\* checkAndResetIfChanged(): the flag, which the call clears.
checkAndResetIfChanged(p) ==
    IF p.mChangedThroughPangolin
    THEN [ret |-> TRUE, p |-> [p EXCEPT !.mChangedThroughPangolin = FALSE]]
    ELSE [ret |-> FALSE, p |-> p]

CheckAndReset(o) ==
    /\ ~crashed
    /\ Live(o)
    /\ LET r == checkAndResetIfChanged(params[o])
       IN  /\ params' = [params EXCEPT ![o] = r.p]
           /\ last' = Call("checkAndResetIfChanged", o, r.ret, "")
    /\ report' = NoReport
    /\ UNCHANGED <<parametersDict, pangolinParams, hist, crashed>>

\* -------------------------------------------------------- ParameterManager
\* getParameter as it would be with parametersDict[group] in place of
\* find(group): operator[] inserts a missing group.
getParameterIndexing(dict, group, name) ==
    LET d1 == Index(dict, group, EmptyMap)
    IN  IF Has(d1[group], name)
        THEN [ret |-> d1[group][name], dict |-> d1, log |-> ""]
        ELSE [ret |-> NULL, dict |-> d1,
              log |-> "Looking for a parameter which doesn't exist"]

\* getParameter<T>(group, name): find() on both levels, no insertion.
getParameter(dict, group, name) ==
    IF Has(dict, group)
    THEN IF Has(dict[group], name)
         THEN [ret |-> dict[group][name], dict |-> dict, log |-> ""]
         ELSE [ret |-> NULL, dict |-> dict,
               log |-> "Looking for a parameter which doesn't exist"]
    ELSE [ret |-> NULL, dict |-> dict,
          log |-> "Looking for a group which doesn't have any parameters"]

GetParameter(group, name) ==
    /\ ~crashed
    /\ LET r == getParameter(parametersDict, group, name)
       IN  /\ parametersDict' = r.dict
           /\ last' = Call("getParameter", r.ret, FALSE, r.log)
    /\ report' = NoReport
    /\ UNCHANGED <<params, pangolinParams, hist, crashed>>

\* Keys in the order the nested std::maps iterate: by group, then by name.
KeyRank(k) == 10 * k[1] + NameRank[k[2]]

RECURSIVE InOrder(_)
InOrder(S) ==
    IF S = {} THEN <<>>
    ELSE LET k == CHOOSE x \in S : \A y \in S : KeyRank(x) <= KeyRank(y)
         IN  <<k>> \o InOrder(S \ {k})

\* new pangolin::Var<T>(...) / new pangolin::Var<std::string>(...): the
\* control starts at the parameter's value, a text control at its numeral.
NewVar(p) ==
    IF p.mCategory = "TEXTINPUT"
    THEN [type |-> "string"] @@ to_string(p.T, p.mValue)
    ELSE [type |-> p.T] @@ Numeral(p.mValue)

\* createPangolinEntry<T>(param, panel_name)
createPangolinEntry(pp, p, o) ==
    IF p.mCategory \in {"BOOL", "MINMAX", "TEXTINPUT"}
    THEN LET p1 == Index(pp, p.mGroup, EmptyMap)
         IN  [p1 EXCEPT ![p.mGroup] =
                 Put(@, p.mName, [first |-> o, second |-> NewVar(p)])]
    ELSE pp

\* The loop of createPangolinEntries over the entries of one group, in
\* iteration order.  param->getVariant() on a null slot is a virtual call
\* through nullptr: it reads the vtable at address 0 and faults.  order is
\* the sequence in which the controls are created.
RECURSIVE CreateLoop(_, _, _)
CreateLoop(keys, s, dict) ==
    IF keys = <<>> \/ s.fault THEN s
    ELSE LET k == Head(keys)
             o == dict[k[1]][k[2]]
         IN  IF o = NULL \/ params[o].st # "live"
             THEN [s EXCEPT !.fault = TRUE]
             ELSE CreateLoop(Tail(keys),
                     [s EXCEPT !.pp = createPangolinEntry(@, params[o], o),
                               !.made = @ \cup {o},
                               !.order = Append(@, o)],
                     dict)

createPangolinEntries(dict, pp, target_group) ==
    LET d1 == Index(dict, target_group, EmptyMap)
        keys == InOrder({<<target_group, n>> : n \in DOMAIN d1[target_group]})
        s == CreateLoop(keys, [pp |-> pp, made |-> {}, order |-> <<>>,
                               fault |-> FALSE], d1)
    IN  [dict |-> d1, pp |-> s.pp, made |-> s.made, order |-> s.order,
         fault |-> s.fault]

CreatePangolinEntries(target_group) ==
    /\ ~crashed
    /\ LET r == createPangolinEntries(parametersDict, pangolinParams,
                                      target_group)
       IN  /\ parametersDict' = r.dict
           /\ pangolinParams' = r.pp
           /\ crashed' = r.fault
    /\ hist' = Forget(hist)
    /\ last' = NoCall
    /\ report' = NoReport
    /\ UNCHANGED params

\* The user edits the control of one binding: any value of the bound type,
\* and for a text control any text.
Edits(o, var) ==
    {Numeral(v) : v \in Values(params[o].T)}
        \cup (IF var.type = "string" THEN {Malformed} ELSE {})

ExternalEdit(group, name) ==
    /\ ~crashed
    /\ Has(pangolinParams, group) /\ Has(pangolinParams[group], name)
    /\ LET b == pangolinParams[group][name]
           o == b.first
       IN  \E x \in Edits(o, b.second) :
            /\ <<x.ok, x.num>> # <<b.second.ok, b.second.num>>
            /\ pangolinParams' = [pangolinParams EXCEPT ![group][name].second =
                                     [type |-> b.second.type] @@ x]
            /\ hist' = [o |-> o, mut |-> "ext", v |-> 0,
                         single |-> Steady(o) /\ x.ok,
                         n |-> Upto2(hist.n), ticks |-> 0]
    /\ last' = NoCall
    /\ report' = NoReport
    /\ UNCHANGED <<params, parametersDict, crashed>>

\* updateValue<T>(param, pango_var_variant) on the object p and control var.
\* The result carries the object and control afterwards, the number of
\* onUpdate() calls and whether lexical_cast threw (nothing is changed then).
Outcome(p, var, cb, pushed, pulled, threw) ==
    [p |-> p, var |-> var, cb |-> cb, pushed |-> pushed, pulled |-> pulled,
     threw |-> threw]

\* The TEXTINPUT branch as it would be with "if" in place of "else if":
\* after a push the text parsed before it is compared and pulled as well.
updateValueTextNoElse(p, var) ==
    IF LexicalCastThrows(var)
    THEN Outcome(p, var, 0, FALSE, FALSE, TRUE)
    ELSE IF p.mChangedInCode /\ LexicalCast(var) # p.mValue
    THEN Outcome([p EXCEPT !.mChangedInCode = FALSE,
                           !.mValue = LexicalCast(var),
                           !.mChangedThroughPangolin = TRUE],
                 [type |-> var.type] @@ to_string(p.T, p.mValue),
                 2, TRUE, TRUE, FALSE)
    ELSE IF p.mChangedInCode
    THEN Outcome([p EXCEPT !.mChangedInCode = FALSE],
                 [type |-> var.type] @@ to_string(p.T, p.mValue),
                 1, TRUE, FALSE, FALSE)
    ELSE IF LexicalCast(var) # p.mValue
    THEN Outcome([p EXCEPT !.mValue = LexicalCast(var),
                           !.mChangedThroughPangolin = TRUE],
                 var, 1, FALSE, TRUE, FALSE)
    ELSE Outcome(p, var, 0, FALSE, FALSE, FALSE)

updateValueText(p, var) ==
    IF LexicalCastThrows(var)
    THEN Outcome(p, var, 0, FALSE, FALSE, TRUE)
    ELSE IF p.mChangedInCode
    THEN Outcome([p EXCEPT !.mChangedInCode = FALSE],
                 [type |-> var.type] @@ to_string(p.T, p.mValue),
                 1, TRUE, FALSE, FALSE)
    ELSE IF LexicalCast(var) # p.mValue
    THEN Outcome([p EXCEPT !.mValue = LexicalCast(var),
                           !.mChangedThroughPangolin = TRUE],
                 var, 1, FALSE, TRUE, FALSE)
    ELSE Outcome(p, var, 0, FALSE, FALSE, FALSE)

updateValueTyped(p, var) ==
    IF var.num # p.mValue
    THEN IF p.mChangedInCode
         THEN Outcome([p EXCEPT !.mChangedInCode = FALSE],
                      [type |-> var.type] @@ Numeral(p.mValue),
                      1, TRUE, FALSE, FALSE)
         ELSE Outcome([p EXCEPT !.mValue = var.num,
                                !.mChangedThroughPangolin = TRUE],
                      var, 1, FALSE, TRUE, FALSE)
    ELSE Outcome(p, var, 0, FALSE, FALSE, FALSE)

updateValue(p, var) ==
    IF p.mCategory = "TEXTINPUT"
    THEN updateValueText(p, var)
    ELSE updateValueTyped(p, var)

\* What a use of a destroyed object can do: the access faults, or the
\* memory still holds the object's last contents and the code runs on them.
Dangling == {"fault", "stale"}

\* One iteration of the loops of updateParameters: the binding at key k.
\* No check precedes param->getVariant().
VisitBinding(s, k, oracle) ==
    LET b == s.pp[k[1]][k[2]]
        o == b.first
        p == s.params[o]
        dead == p.st # "live"
        r == updateValue(p, b.second)
        seen == [s.per[o] EXCEPT !.visited = TRUE, !.deref = dead]
    IN  IF dead /\ oracle[o] = "fault"
        THEN [s EXCEPT !.end = "fault", !.per[o] = seen]
        ELSE IF r.threw
        THEN [s EXCEPT !.end = "threw", !.per[o] = seen]
        ELSE [s EXCEPT !.params[o] = r.p,
                       !.pp[k[1]][k[2]].second = r.var,
                       !.per[o] = [seen EXCEPT !.cb = r.cb,
                                      !.pushed = r.pushed,
                                      !.pulled = r.pulled]]

RECURSIVE UpdateLoop(_, _, _)
UpdateLoop(keys, s, oracle) ==
    IF keys = <<>> \/ s.end # "run" THEN s
    ELSE UpdateLoop(Tail(keys), VisitBinding(s, Head(keys), oracle), oracle)

updateParameters(ps, pp, oracle) ==
    LET s == UpdateLoop(InOrder(KeysOf(pp)),
                 [params |-> ps, pp |-> pp, end |-> "run",
                  per |-> [o \in Addr |-> NoVisit]],
                 oracle)
    IN  [s EXCEPT !.end = IF @ = "run" THEN "done" ELSE @]

UpdateParameters ==
    /\ ~crashed
    /\ \E oracle \in [Addr -> Dangling] :
        LET r == updateParameters(params, pangolinParams, oracle)
        IN  /\ params' = r.params
            /\ pangolinParams' = r.pp
            /\ report' = [end |-> r.end, per |-> r.per]
            /\ crashed' = (r.end = "fault")
    /\ hist' = IF hist.o = NULL THEN NoHist
                ELSE [hist EXCEPT !.ticks = Upto2(@), !.n = 0]
    /\ last' = NoCall
    /\ UNCHANGED parametersDict

\* ---------------------------------------------------------- specification
\* One parameter, declared in any group: bound, looked up, mutated from
\* both sides, reconciled and destroyed.
Next ==
    \/ \E o \in {1} : ConstructToggle(o, ParameterGroup)
    \/ \E o \in {1} : ConstructRange(o, ParameterGroup, {"int", "double"})
    \/ \E o \in {1} : ConstructText(o, ParameterGroup, {"int", "double"})
    \/ \E o \in {1} : Destroy(o)
    \/ \E o \in {1} : SetValue(o)
    \/ \E o \in {1} : CheckAndReset(o)
    \/ \E g \in ParameterGroup, n \in Names : GetParameter(g, n)
    \/ \E g \in ParameterGroup : CreatePangolinEntries(g)
    \/ \E g \in ParameterGroup, n \in Names : ExternalEdit(g, n)
    \/ UpdateParameters

Spec == Init /\ [][Next]_vars

\* Two parameters declared in group MAIN, bound, edited from outside and
\* reconciled.
NextPair ==
    \/ \E o \in Addr : ConstructToggle(o, {MAIN})
    \/ \E o \in Addr : ConstructRange(o, {MAIN}, {"int"})
    \/ \E o \in Addr : ConstructText(o, {MAIN}, {"double"})
    \/ \E g \in {MAIN} : CreatePangolinEntries(g)
    \/ \E g \in {MAIN}, n \in Names : ExternalEdit(g, n)
    \/ UpdateParameters

SpecPair == Init /\ [][NextPair]_vars

\* Two parameters declared in any group, looked up, bound, reconciled and
\* destroyed.
NextRegistry ==
    \/ \E o \in Addr : ConstructToggle(o, ParameterGroup)
    \/ \E o \in Addr : ConstructRange(o, ParameterGroup, {"int"})
    \/ \E o \in Addr : ConstructText(o, ParameterGroup, {"double"})
    \/ \E o \in Addr : Destroy(o)
    \/ \E g \in ParameterGroup, n \in Names : GetParameter(g, n)
    \/ \E g \in ParameterGroup : CreatePangolinEntries(g)
    \/ UpdateParameters

SpecRegistry == Init /\ [][NextRegistry]_vars

\* ------------------------------------------------------------- properties
\* The control bound to o in the binding table pp, and the bound addresses.
BoundIn(pp, o) == \E k \in KeysOf(pp) : pp[k[1]][k[2]].first = o

ControlIn(pp, o) ==
    LET k == CHOOSE k \in KeysOf(pp) : pp[k[1]][k[2]].first = o
    IN  pp[k[1]][k[2]].second

\* The control reads the value v: a typed control holds v, a text control
\* holds the numeral of v.
Reads(var, v) == var.ok /\ var.num = v

\* The step is a run of updateParameters (every other call clears report).
Ticked == report'.end # "idle"

\* C1 (No-echo): once setValue(v) on a bound parameter has been followed
\* by a tick, the control reads v, and neither that tick nor the tick after
\* it has pulled a value into the parameter and set mChangedThroughPangolin.
C1_NoEcho ==
    \A o \in Addr :
        (hist.o = o /\ hist.mut = "set" /\ hist.ticks >= 1) =>
            /\ hist.ticks = 1 => Reads(Control(o), hist.v)
            /\ ~report.per[o].pulled

\* C2 (Exactly-once callback): after a single value change of a bound
\* parameter (a setValue to a new value or an edit of the control, applied
\* while nothing was pending), the first tick invokes onUpdate once and the
\* tick after it does not invoke it.
C2_ExactlyOnce ==
    \A o \in Addr :
        (hist.o = o /\ hist.single /\ report.end # "idle") =>
            /\ hist.ticks = 1 => report.per[o].cb = 1
            /\ hist.ticks = 2 => report.per[o].cb = 0

\* C3 (Internal-change-wins): a tick that processes a live bound parameter
\* whose mChangedInCode is set leaves the control reading the internal
\* value, clears the flag and invokes onUpdate once, in every category and
\* whether or not the control already read the internal value.
C3_InternalWins ==
    [][\A o \in Addr :
        (Ticked /\ report'.per[o].visited /\ Live(o) /\ Bound(o)
                /\ params[o].mChangedInCode) =>
            /\ Reads(ControlIn(pangolinParams', o), params[o].mValue)
            /\ params'[o].mValue = params[o].mValue
            /\ ~params'[o].mChangedInCode
            /\ report'.per[o].cb = 1]_vars

\* C4 (External change is applied): when the only mutation since the
\* previous tick is an edit that left the control reading a value other
\* than the internal one, the tick stores the control's value in the
\* parameter, leaves the control alone, and checkAndResetIfChanged() then
\* returns true once and false on the next call.
C4_ExternalApplied ==
    [][\A o \in Addr :
        (Ticked /\ hist.o = o /\ hist.mut = "ext" /\ hist.n = 1
                /\ Live(o) /\ Bound(o) /\ Control(o).ok
                /\ Control(o).num # params[o].mValue) =>
            /\ params'[o].mValue = Control(o).num
            /\ ControlIn(pangolinParams', o) = Control(o)
            /\ checkAndResetIfChanged(params'[o]).ret
            /\ ~checkAndResetIfChanged(
                    checkAndResetIfChanged(params'[o]).p).ret]_vars

\* C5 (Idempotence): a tick that directly follows a tick changes no
\* parameter, no control and no flag, and invokes no callback.
C5_Idempotent ==
    [][(report.end # "idle" /\ Ticked) =>
            /\ params' = params
            /\ pangolinParams' = pangolinParams
            /\ \A o \in Addr : report'.per[o].cb = 0]_vars

\* C6 (Tombstone safety in the tick): a tick visits no binding of a
\* destroyed parameter, so it never dereferences one, and it visits the
\* binding of every live parameter.
C6_TombstoneSafe ==
    report.end # "idle" =>
        \A o \in Addr :
            Bound(o) =>
                IF params[o].st = "dead"
                THEN ~report.per[o].visited /\ ~report.per[o].deref
                ELSE report.per[o].visited

\* C7 (Conversion errors are isolated): a tick over live bindings, one of
\* them a text control whose text does not convert, ends normally, leaves
\* that parameter and its control unchanged, and visits every other binding.
C7_ConversionIsolated ==
    [][\A o \in Addr :
        (Ticked /\ (\A q \in Addr : Bound(q) => Live(q))
                /\ Bound(o) /\ ~Control(o).ok) =>
            /\ report'.end = "done"
            /\ params'[o] = params[o]
            /\ ControlIn(pangolinParams', o) = Control(o)
            /\ \A q \in Addr \ {o} : Bound(q) => report'.per[q].visited]_vars

\* The key <<group, name>> is in the registry dict.
Registered(dict, g, n) == Has(dict, g) /\ Has(dict[g], n)

\* C8 (Uniqueness-overwrite): a constructor run under a key the registry
\* already holds logs the duplicate warning, under a key it does not hold
\* logs nothing; either way it completes and the registry maps the key to
\* the new object, which getParameter then returns.
C8_UniquenessOverwrite ==
    [][\A o \in Addr :
        (params[o].st = "free" /\ params'[o].st = "live") =>
            LET g == params'[o].mGroup
                n == params'[o].mName
            IN  /\ last'.op = "ctor"
                /\ last'.log = IF Registered(parametersDict, g, n)
                               THEN "Duplicate parameter" ELSE ""
                /\ Registered(parametersDict', g, n)
                /\ getParameter(parametersDict', g, n).ret = o]_vars

\* A second parameter has just been constructed under the key of the
\* first, with the warning, and the registry maps the key to the second.
C8_Witness ==
    /\ last = Call("ctor", 2, FALSE, "Duplicate parameter")
    /\ Live(1) /\ Live(2)
    /\ params[1].mGroup = params[2].mGroup
    /\ params[1].mName = params[2].mName
    /\ params[1].mCategory # params[2].mCategory
    /\ getParameter(parametersDict, params[2].mGroup, params[2].mName).ret = 2

\* C9 (Lookup miss is recoverable): in every reachable registry,
\* getParameter for a group the registry does not hold, or for a name its
\* group does not hold, returns null and leaves the registry as it was.
C9_LookupMiss ==
    \A g \in ParameterGroup, n \in Names :
        ~Registered(parametersDict, g, n) =>
            LET r == getParameter(parametersDict, g, n)
            IN  /\ r.ret = NULL
                /\ r.dict = parametersDict
                /\ r.log # ""

\* getParameter has just missed on a group the registry does not hold,
\* while the registry holds another group with a live parameter.
C9_Witness ==
    /\ last = Call("getParameter", NULL, FALSE,
                   "Looking for a group which doesn't have any parameters")
    /\ \E o \in Addr : Live(o) /\ parametersDict[params[o].mGroup][params[o].mName] = o
    /\ \E g \in ParameterGroup : ~Has(parametersDict, g)

\* C10 (Destruction tombstones): the destructor of a parameter whose key
\* the registry holds keeps every key of the registry, stores null in the
\* parameter's slot, so that getParameter returns null for it, and leaves
\* every other slot as it was.
C10_DestroyTombstones ==
    [][\A o \in Addr :
        (Live(o) /\ params'[o].st = "dead") =>
            LET g == params[o].mGroup
                n == params[o].mName
            IN  /\ Registered(parametersDict, g, n)
                /\ DOMAIN parametersDict' = DOMAIN parametersDict
                /\ \A g2 \in DOMAIN parametersDict :
                    /\ DOMAIN parametersDict'[g2] = DOMAIN parametersDict[g2]
                    /\ \A n2 \in DOMAIN parametersDict[g2] :
                        parametersDict'[g2][n2] =
                            IF g2 = g /\ n2 = n THEN NULL
                            ELSE parametersDict[g2][n2]
                /\ getParameter(parametersDict', g, n).ret = NULL]_vars

\* Parameter 1 has just been destroyed: its slot holds null, and the slot
\* of parameter 2, in the same group, still holds parameter 2.
C10_Witness ==
    /\ last = Call("dtor", 1, FALSE, "Parameter being deleted")
    /\ params[1].st = "dead" /\ Live(2)
    /\ params[1].mGroup = params[2].mGroup
    /\ params[1].mName # params[2].mName
    /\ parametersDict[params[1].mGroup][params[1].mName] = NULL
    /\ parametersDict[params[2].mGroup][params[2].mName] = 2

\* The live parameters that group g of the registry holds, in the order in
\* which they were declared: objects are constructed at rising addresses.
Holds(dict, g, o) ==
    /\ Live(o) /\ params[o].mGroup = g
    /\ Registered(dict, g, params[o].mName)
    /\ dict[g][params[o].mName] = o

RECURSIVE Rising(_)
Rising(S) ==
    IF S = {} THEN <<>>
    ELSE LET o == CHOOSE x \in S : \A y \in S : x <= y
         IN  <<o>> \o Rising(S \ {o})

Declared(dict, g) == Rising({o \in Addr : Holds(dict, g, o)})

\* C11 (Iteration order): when every entry of a group is a live parameter,
\* createPangolinEntries for the group creates the controls in the order
\* in which the parameters were declared.
C11_DeclarationOrder ==
    \A g \in ParameterGroup :
        (/\ Has(parametersDict, g)
         /\ \A n \in DOMAIN parametersDict[g] : parametersDict[g][n] # NULL) =>
            createPangolinEntries(parametersDict, pangolinParams, g).order
                = Declared(parametersDict, g)

\* The value of p lies within the bounds it was constructed with.
InRange(p) == p.mMinValue <= p.mValue /\ p.mValue <= p.mMaxValue

\* C12 (Bounds respected): a tick over a live bound MINMAX parameter whose
\* value lies in [mMinValue, mMaxValue] leaves the value in that range,
\* whatever value the control holds.
C12_BoundsRespected ==
    [][\A o \in Addr :
        (Ticked /\ Live(o) /\ Bound(o)
                /\ params[o].mCategory = "MINMAX" /\ InRange(params[o])) =>
            InRange(params'[o])]_vars

\* C13 (Frame of setValue): setValue(v) on a live parameter stores v in
\* mValue and sets mChangedInCode; it calls no onUpdate, and leaves
\* mChangedThroughPangolin, every other field, every other parameter, the
\* controls and the registry as they were.
C13_SetValueFrame ==
    [][\A o \in Addr :
        SetValue(o) =>
            /\ \E v \in Values(params[o].T) :
                /\ Bound(o) => v = hist'.v
                /\ params' = [params EXCEPT ![o] =
                        [@ EXCEPT !.mValue = v, !.mChangedInCode = TRUE]]
            /\ \A q \in Addr : report'.per[q].cb = 0
            /\ pangolinParams' = pangolinParams
            /\ parametersDict' = parametersDict
            /\ crashed' = crashed]_vars

\* setValue has just stored a value other than the one its control reads,
\* in a parameter whose mChangedThroughPangolin is set: the flag is kept.
C13_Witness ==
    /\ hist.o = 1 /\ hist.mut = "set" /\ hist.ticks = 0
    /\ last.op = "none" /\ report.end = "idle"
    /\ Live(1) /\ Bound(1)
    /\ params[1].mValue = hist.v /\ params[1].mChangedInCode
    /\ params[1].mChangedThroughPangolin
    /\ Control(1).ok /\ Control(1).num # hist.v

\* No setValue and no edit of a control has happened since the previous
\* tick (or since the start).
Quiet == hist.n = 0

\* C14 (One-shot edge detector): checkAndResetIfChanged() returns
\* mChangedThroughPangolin, returns false when called again, and changes
\* nothing but that flag; a tick that pulls makes the next call return
\* true; and a tick that follows no edit of a control leaves a call that
\* would have returned false returning false.
C14_OneShot ==
    [][\A o \in Addr :
        /\ CheckAndReset(o) =>
            /\ last'.flag = params[o].mChangedThroughPangolin
            /\ params' = [params EXCEPT ![o].mChangedThroughPangolin = FALSE]
            /\ ~checkAndResetIfChanged(params'[o]).ret
            /\ UNCHANGED <<parametersDict, pangolinParams, crashed>>
        /\ (Ticked /\ Live(o) /\ report'.per[o].pulled) =>
            checkAndResetIfChanged(params'[o]).ret
        /\ (Ticked /\ Live(o) /\ Quiet
                   /\ ~checkAndResetIfChanged(params[o]).ret) =>
            ~checkAndResetIfChanged(params'[o]).ret]_vars

\* C15 (One direction per tick): for every binding a tick applies at most
\* one of push and pull: a push leaves the parameter's value alone, a pull
\* leaves the control alone, and without a push the control, without a
\* pull the value, is unchanged.
C15_OneDirection ==
    [][\A o \in Addr :
        (Ticked /\ Bound(o)) =>
            LET v == report'.per[o]
            IN  /\ ~(v.pushed /\ v.pulled)
                /\ ~v.pulled => params'[o].mValue = params[o].mValue
                /\ ~v.pushed => ControlIn(pangolinParams', o) = Control(o)
                /\ ~v.pulled =>
                    params'[o].mChangedThroughPangolin
                        = params[o].mChangedThroughPangolin]_vars

\* A tick has just pushed the value of a text parameter over an edit of
\* its control: the last mutation before the tick was the edit, and the
\* setValue before it had set mChangedInCode.  Nothing was pulled.
C15_Witness ==
    /\ report.end = "done"
    /\ hist.o = 1 /\ hist.mut = "ext" /\ hist.ticks = 1
    /\ Live(1) /\ Bound(1) /\ params[1].mCategory = "TEXTINPUT"
    /\ report.per[1].pushed /\ ~report.per[1].pulled
    /\ report.per[1].cb = 1
    /\ ~params[1].mChangedInCode

\* The binding under key <<g, n>> of the table pp, NULL when there is none.
BindingAt(pp, g, n) ==
    IF Has(pp, g) /\ Has(pp[g], n) THEN pp[g][n].first ELSE NULL

\* C16 (Tombstone safety in materialization): createPangolinEntries for a
\* group ends without a fault, binds every live parameter the group holds
\* to a control, and makes no binding under a key whose slot is null.
C16_MaterializeSkipsTombstones ==
    [][\A g \in ParameterGroup :
        CreatePangolinEntries(g) =>
            /\ ~crashed'
            /\ \A o \in Addr :
                Holds(parametersDict, g, o) =>
                    BindingAt(pangolinParams', g, params[o].mName) = o
            /\ \A n \in Names :
                (Registered(parametersDict, g, n)
                        /\ parametersDict[g][n] = NULL) =>
                    BindingAt(pangolinParams', g, n)
                        = BindingAt(pangolinParams, g, n)]_vars

\* C17 (Convergence): after a tick that starts with convertible text in
\* every text control, the control of every live bound parameter reads the
\* parameter's value; and when a setValue was pending (mChangedInCode),
\* that value is the internal one from before the tick.
C17_Convergence ==
    [][(Ticked /\ \A q \in Addr : Bound(q) => Control(q).ok) =>
            \A o \in Addr :
                (Live(o) /\ Bound(o)) =>
                    /\ Reads(ControlIn(pangolinParams', o), params'[o].mValue)
                    /\ params[o].mChangedInCode =>
                        params'[o].mValue = params[o].mValue]_vars

\* o is live and no parameter was constructed after it under its key
\* (objects are constructed at rising addresses).
Latest(o) ==
    /\ Live(o)
    /\ \A q \in Addr :
        (q > o /\ params[q].st # "free") =>
            <<params[q].mGroup, params[q].mName>>
                # <<params[o].mGroup, params[o].mName>>

\* C18 (A live parameter stays reachable): getParameter under the key of a
\* live parameter that is the most recent one constructed under that key
\* returns the parameter, whichever other parameters have been destroyed.
C18_LiveReachable ==
    \A o \in Addr :
        Latest(o) =>
            getParameter(parametersDict, params[o].mGroup,
                         params[o].mName).ret = o

\* The same parameter and control contents in the FreeText form and in the
\* BoundedRange / Toggle form.
AsText(p) == [p EXCEPT !.mCategory = "TEXTINPUT"]

AsTyped(p) ==
    [p EXCEPT !.mCategory = IF p.T = "bool" THEN "BOOL" ELSE "MINMAX"]

\* What a tick leaves behind for one binding: value, flags, what the
\* control reads and the number of onUpdate calls.
Observed(r) ==
    <<r.p.mValue, r.p.mChangedInCode, r.p.mChangedThroughPangolin,
      r.var.num, r.cb>>

\* C19 (Category-independent reconciliation): from every reachable content
\* of a live bound parameter and its control whose value prints exactly,
\* the tick of the FreeText path and the tick of the BoundedRange / Toggle
\* path leave the same value, flags and control reading and make the same
\* number of onUpdate calls.
C19_CategoryIndependent ==
    \A o \in Addr :
        (/\ Live(o) /\ Bound(o) /\ Control(o).ok
         /\ to_string(params[o].T, params[o].mValue)
                = Numeral(params[o].mValue)) =>
            Observed(updateValue(AsText(params[o]),
                        [type |-> "string"] @@ Numeral(Control(o).num)))
                = Observed(updateValue(AsTyped(params[o]),
                        [type |-> params[o].T] @@ Numeral(Control(o).num)))

====
